---- MODULE Spec2Model ----
(***************************************************************************)
(* The scrape-and-cache pipeline of the Trophy Hunter Dashboard:           *)
(*   core/cache.py    load_from_cache, save_to_cache, get_cache_path       *)
(*   core/scraper.py  fetch_summary_data, fetch_full_trophy_log,           *)
(*                    parse_trophy_log_page                                *)
(*   app.py           main, run_scraper                                    *)
(*   components/utils.py  render_sidebar (the two buttons)                 *)
(*                                                                         *)
(* Strings that the code inspects character by character (user names) are  *)
(* sequences of one-character strings.  A file's content is the sequence   *)
(* of JSON tokens json.dump wrote; json.load parses it back.  Time is in   *)
(* hours.  A trophy record is abstracted to its title.                     *)
(***************************************************************************)
EXTENDS Integers, Sequences, FiniteSets, TLC

\* ------------------------------------------------------------------ bounds

\* The site serves non-empty log pages only up to this page number.
MaxPages == 2

\* ---------------------------------------------------------------- constants

\* cache.py: CACHE_EXPIRATION = timedelta(hours=24)
CACHE_EXPIRATION == 24

\* requests.Response.raise_for_status raises for 400 <= status < 600.
HTTP_ERROR_MIN == 400

\* The status of the "no more pages" answer (scraper.py line 158).
HTTP_NOT_FOUND == 404

\* parse_trophy_log_page keeps a row only if it has at least 10 cells.
MIN_CELLS == 10

\* Python's None.
None == [none |-> TRUE]

\* ------------------------------------------------------------------ inputs

\* What can be typed into the "Enter PSN Username" box.
UsernameInputs == {<<>>, <<"F", "o">>, <<"f", "o">>}

\* The readings of the wall clock (hours): ages of 1, 2, 23, 24 and 25.
TimePoints == {0, 23, 24, 25}

\* Statuses a log page answers with: OK, Not Modified (a 3xx that requests
\* returns as it is), Not Found, Internal Server Error.
Statuses == {200, 304, 404, 500}

\* An li element of the user bar: its class and its text, character by
\* character.
Li(class, text) == [class |-> class, text |-> text]

\* A span.stat of the div.stats: its child nodes (the value text, the label
\* span).
Stat(contents) == [contents |-> contents]

\* A profile page: whether it has the div#user-bar, the li elements of the
\* bar in the order of the tiers, and the span.stat elements of div.stats.
SummaryDocWithStats(user_bar, li, stats) ==
    [user_bar |-> user_bar, li |-> li, stats |-> stats]

\* A profile page without a div.stats.
SummaryDoc(user_bar, li) == SummaryDocWithStats(user_bar, li, <<>>)

\* The page of an unknown user (or an answer without a document).
NoUserBar == SummaryDoc(FALSE, <<>>)

\* The profile pages served: no user bar; a bar with a total of 51; the same
\* bar whose platinum count is shown as "-"; the bar with a total of 51 and
\* a div.stats whose span.stat has no child node.
SummaryDocs ==
    {NoUserBar,
     SummaryDoc(TRUE, <<Li("total", <<"5", "1">>)>>),
     SummaryDoc(TRUE, <<Li("total", <<"5", "1">>), Li("platinum", <<"-">>)>>),
     SummaryDocWithStats(TRUE, <<Li("total", <<"5", "1">>)>>, <<Stat(<<>>)>>)}

\* --------------------------------------------------------- cache.py: paths

LowerChar(c) ==
    CASE c = "F" -> "f"
      [] c = "O" -> "o"
      [] OTHER -> c

\* str.lower()
Lower(s) == [i \in 1..Len(s) |-> LowerChar(s[i])]

\* A mutant of get_cache_path: the name is used as typed.
get_cache_path_nolower(username) == username

\* get_cache_path: CACHE_DIR / f"{username.lower()}.json"; a path is
\* modelled by the stem of the file name.
get_cache_path(username) == Lower(username)

\* Every file name the cache directory could hold in this model.
Paths == UsernameInputs \cup {Lower(u) : u \in UsernameInputs}

\* No file at a path.
NoFile == [exists |-> FALSE]

\* ------------------------------------------------------ JSON serialisation

LBrace == <<"punct", "{">>
RBrace == <<"punct", "}">>
LBracket == <<"punct", "[">>
RBracket == <<"punct", "]">>
StrTok(s) == <<"str", s>>
NumTok(n) == <<"num", ToString(n)>>

\* The numbers that occur in a summary.
Numbers == {0, 51}

\* int() of a number token's text.
ParseNum(text) ==
    IF \E n \in Numbers : ToString(n) = text
    THEN CHOOSE n \in Numbers : ToString(n) = text
    ELSE -1

RECURSIVE DumpItems(_)
\* The items of a dict of str -> int: key, value, key, value ...
DumpItems(items) ==
    IF items = <<>> THEN <<>>
    ELSE <<StrTok(Head(items)[1]), NumTok(Head(items)[2])>>
             \o DumpItems(Tail(items))

RECURSIVE DumpList(_)
\* The elements of a list of trophy records.
DumpList(l) ==
    IF l = <<>> THEN <<>>
    ELSE <<StrTok(Head(l))>> \o DumpList(Tail(l))

\* A mutant of json_dump: the last trophy of the log is not written.
json_dump_droplast(data) ==
    <<LBrace, StrTok("profile_summary"), LBrace, StrTok("total_trophies"),
      LBrace>>
      \o DumpItems(data.profile_summary.total_trophies)
      \o <<RBrace, RBrace, StrTok("trophy_log"), LBracket>>
      \o DumpList(IF data.trophy_log = <<>> THEN <<>>
                  ELSE SubSeq(data.trophy_log, 1, Len(data.trophy_log) - 1))
      \o <<RBracket, RBrace>>

\* json.dump(data, f, indent=4) of a profile snapshot: the token stream.
json_dump(data) ==
    <<LBrace, StrTok("profile_summary"), LBrace, StrTok("total_trophies"),
      LBrace>>
      \o DumpItems(data.profile_summary.total_trophies)
      \o <<RBrace, RBrace, StrTok("trophy_log"), LBracket>>
      \o DumpList(data.trophy_log)
      \o <<RBracket, RBrace>>

\* A failed parse.
ParseError == [ok |-> FALSE, next |-> 0, value |-> <<>>]

RECURSIVE ParseItems(_, _, _)
\* Parses key/value items from position i up to the closing brace.
ParseItems(toks, i, acc) ==
    IF i > Len(toks) THEN ParseError
    ELSE IF toks[i] = RBrace THEN [ok |-> TRUE, next |-> i + 1, value |-> acc]
    ELSE IF /\ toks[i][1] = "str"
            /\ i + 1 <= Len(toks)
            /\ toks[i + 1][1] = "num"
         THEN ParseItems(toks, i + 2,
                         Append(acc, <<toks[i][2], ParseNum(toks[i + 1][2])>>))
         ELSE ParseError

RECURSIVE ParseList(_, _, _)
\* Parses list elements from position i up to the closing bracket.
ParseList(toks, i, acc) ==
    IF i > Len(toks) THEN ParseError
    ELSE IF toks[i] = RBracket
         THEN [ok |-> TRUE, next |-> i + 1, value |-> acc]
    ELSE IF toks[i][1] = "str"
         THEN ParseList(toks, i + 1, Append(acc, toks[i][2]))
         ELSE ParseError

\* json.load(f): the snapshot a token stream denotes, or a JSONDecodeError.
json_load(toks) ==
    IF /\ Len(toks) >= 5
       /\ SubSeq(toks, 1, 5) = <<LBrace, StrTok("profile_summary"), LBrace,
                                 StrTok("total_trophies"), LBrace>>
    THEN LET items == ParseItems(toks, 6, <<>>)
             j == items.next
         IN IF /\ items.ok
               /\ j + 2 <= Len(toks)
               /\ SubSeq(toks, j, j + 2) =
                      <<RBrace, StrTok("trophy_log"), LBracket>>
            THEN LET log == ParseList(toks, j + 3, <<>>)
                 IN IF /\ log.ok
                       /\ log.next = Len(toks)
                       /\ toks[log.next] = RBrace
                    THEN [ok |-> TRUE,
                          next |-> Len(toks) + 1,
                          value |-> [profile_summary |->
                                         [total_trophies |-> items.value],
                                     trophy_log |-> log.value]]
                    ELSE ParseError
            ELSE ParseError
    ELSE ParseError

\* ---------------------------------------------------- cache.py: load, save

\* A file: the tokens written to it and its modification time.
FileOf(content, mtime) == [exists |-> TRUE, content |-> content, mtime |-> mtime]

\* A mutant of load_from_cache: the JSONDecodeError is not turned into None;
\* what the parser had read so far comes back.
load_from_cache_nocatch(fs, t, username) ==
    LET cache_file == fs[get_cache_path(username)]
    IN IF cache_file.exists
       THEN IF t - cache_file.mtime < CACHE_EXPIRATION
            THEN json_load(cache_file.content).value
            ELSE None
       ELSE None

\* A mutant of load_from_cache: the freshness test is <= instead of <.
load_from_cache_le(fs, t, username) ==
    LET cache_file == fs[get_cache_path(username)]
    IN IF cache_file.exists
       THEN IF t - cache_file.mtime <= CACHE_EXPIRATION
            THEN IF json_load(cache_file.content).ok
                 THEN json_load(cache_file.content).value
                 ELSE None
            ELSE None
       ELSE None

\* load_from_cache(username) on the directory fs at time t.  A file this
\* program wrote is readable by it, so the only failure of the read is a
\* JSONDecodeError.
load_from_cache(fs, t, username) ==
    LET cache_file == fs[get_cache_path(username)]
    IN IF cache_file.exists
       THEN IF t - cache_file.mtime < CACHE_EXPIRATION
            THEN IF json_load(cache_file.content).ok
                 THEN json_load(cache_file.content).value
                 ELSE None
            ELSE None
       ELSE None

\* A mutant of load_from_cache_files: an entry found stale or corrupt is
\* removed.
load_from_cache_files_unlink(fs, t, username) ==
    LET cache_file == fs[get_cache_path(username)]
    IN IF cache_file.exists /\ load_from_cache(fs, t, username) = None
       THEN [fs EXCEPT ![get_cache_path(username)] = NoFile]
       ELSE fs

\* The directory after load_from_cache(username): as it was.  The function
\* tests exists(), reads st_mtime and opens the file for reading (lines
\* 21-27); it writes, renames and unlinks nothing.
load_from_cache_files(fs, t, username) == fs

\* How a save can go: the whole stream is written; open() raises IOError
\* and the directory is untouched; or a write raises IOError after open()
\* truncated the file and `written` tokens went out (here all but the last).
IoOutcomes(data) ==
    {[kind |-> "ok", written |-> Len(json_dump(data))],
     [kind |-> "open_error", written |-> 0],
     [kind |-> "write_error", written |-> Len(json_dump(data)) - 1]}

\* A mutant of SaveRaises: the IOError is not caught.
SaveRaises_uncaught(io) == io.kind # "ok"

\* save_to_cache raises to its caller: never, the IOError of open() or of a
\* write is caught and printed (lines 38-39).
SaveRaises(io) == FALSE

\* A mutant of save_to_cache: an existing file keeps its modification time.
save_to_cache_keepmtime(fs, t, username, data, io) ==
    IF io.kind = "open_error" THEN fs
    ELSE [fs EXCEPT ![get_cache_path(username)] =
              FileOf(SubSeq(json_dump(data), 1, io.written),
                     IF @.exists THEN @.mtime ELSE t)]

\* save_to_cache(username, data) on the directory fs at time t with the
\* I/O outcome io; the IOError is caught and printed.
save_to_cache(fs, t, username, data, io) ==
    IF io.kind = "open_error" THEN fs
    ELSE [fs EXCEPT ![get_cache_path(username)] =
              FileOf(SubSeq(json_dump(data), 1, io.written), t)]

\* ------------------------------------------------- scraper.py: extraction

\* A table row of a log page: its number of <td> cells and its title.
Row(cells, title) == [cells |-> cells, title |-> title]

\* The title of the k-th trophy of log page p.
Title(p, k) == "p" \o ToString(p) \o "t" \o ToString(k)

\* The table's header row: no <td> cell at all.
HeaderRow == Row(0, "")

\* The documents log page p can answer with: no table, a table with only the
\* header row, one trophy, or two trophies around a malformed row.
Bodies(p) ==
    {<<>>,
     <<HeaderRow>>,
     <<HeaderRow, Row(MIN_CELLS, Title(p, 1))>>,
     <<Row(MIN_CELLS, Title(p, 1)), Row(MIN_CELLS - 1, "short"),
       Row(MIN_CELLS, Title(p, 2))>>}

RECURSIVE parse_trophy_log_page(_)
\* parse_trophy_log_page: the rows with at least 10 cells, in document order.
parse_trophy_log_page(body) ==
    IF body = <<>> THEN <<>>
    ELSE IF Head(body).cells < MIN_CELLS
         THEN parse_trophy_log_page(Tail(body))
         ELSE <<Head(body).title>> \o parse_trophy_log_page(Tail(body))

\* ------------------------------------------------------------------- state

\* --------------------------------------- scraper.py: parse_profile_summary

IsSpace(c) == c = " "

RECURSIVE LStrip(_)
LStrip(text) ==
    IF text # <<>> /\ IsSpace(Head(text)) THEN LStrip(Tail(text)) ELSE text

RECURSIVE RStrip(_)
RStrip(text) ==
    IF text # <<>> /\ IsSpace(text[Len(text)])
    THEN RStrip(SubSeq(text, 1, Len(text) - 1))
    ELSE text

\* str.strip().
Strip(text) == RStrip(LStrip(text))

IsNotComma(c) == c # ","

\* str.replace(",", "").
RemoveCommas(text) == SelectSeq(text, IsNotComma)

\* The value of a decimal digit, -1 for any other character.
DigitValue(c) ==
    CASE c = "0" -> 0 [] c = "1" -> 1 [] c = "2" -> 2 [] c = "3" -> 3
      [] c = "4" -> 4 [] c = "5" -> 5 [] c = "6" -> 6 [] c = "7" -> 7
      [] c = "8" -> 8 [] c = "9" -> 9 [] OTHER -> -1

\* int(text) raises ValueError: no digits, or a character that is no digit.
IntRaises(text) ==
    text = <<>> \/ \E i \in 1..Len(text) : DigitValue(text[i]) = -1

RECURSIVE IntOf(_)
\* int(text) of a string of digits.
IntOf(text) ==
    IF text = <<>> THEN 0
    ELSE 10 * IntOf(SubSeq(text, 1, Len(text) - 1))
             + DigitValue(text[Len(text)])

\* el.text.strip().replace(",", "") of an li element (lines 62-64).
CountText(el) == RemoveCommas(Strip(el.text))

\* parse_profile_summary (lines 38-76), its total_trophies: the items of the
\* dict, one per li of the user bar.  Without a user bar the key is absent;
\* a count int() cannot read raises ValueError inside the try block and the
\* function returns {} (lines 72-74).  An absent key and an empty dict are
\* both the empty sequence: summary_data.get("total_trophies") tells them
\* not apart.
parse_profile_summary(doc) ==
    IF ~doc.user_bar
    THEN [total_trophies |-> <<>>]
    ELSE IF \E i \in 1..Len(doc.li) : IntRaises(CountText(doc.li[i]))
         THEN [total_trophies |-> <<>>]
         ELSE [total_trophies |->
                  [i \in 1..Len(doc.li) |->
                      <<doc.li[i].class, IntOf(CountText(doc.li[i]))>>]]

\* parse_profile_summary raises: the tiers were read without a ValueError
\* (lines 59-64) and stat.contents[0] (line 69) is taken of a span.stat
\* without child nodes; the IndexError is not among the exceptions the
\* except clause names (line 72).
parse_profile_summary_raises(doc) ==
    /\ ~(doc.user_bar
           /\ \E i \in 1..Len(doc.li) : IntRaises(CountText(doc.li[i])))
    /\ \E j \in 1..Len(doc.stats) : doc.stats[j].contents = <<>>

VARIABLES
    now,                  \* datetime.now(), in hours
    files,                \* the data_cache directory: path -> file
    username_to_search,   \* st.session_state.username_to_search
    profile_data,         \* st.session_state.profile_data
    scraping_in_progress, \* st.session_state.scraping_in_progress
    pc,                   \* where the script run is
    cached_data,          \* run_scraper: cached_data
    summary_data,         \* run_scraper: summary_data
    page,                 \* fetch_full_trophy_log: page
    all_trophies,         \* fetch_full_trophy_log: all_trophies
    trophy_log,           \* run_scraper: trophy_log, the driver's result
    http,                 \* the requests of this run: page (0: summary), status, body
    progress,             \* the calls of progress_callback in this run
    events,               \* the scrape_complete events logged in this run
    ui,                   \* the message run_scraper showed last
    save,                 \* the save of this run: its outcome, the file before
    loads,                \* the loads of one caller since the last save
    writers               \* the processes inside save_to_cache: step, offset

vars == <<now, files, username_to_search, profile_data, scraping_in_progress,
          pc, cached_data, summary_data, page, all_trophies, trophy_log,
          http, progress, events, ui, save, loads, writers>>

\* What only the cache-level specifications change.
aux == <<loads, writers>>

session == <<username_to_search, profile_data, scraping_in_progress>>
driver == <<page, all_trophies, trophy_log, progress, events>>

\* run_scraper, line 120: the number of trophies the estimate takes a log
\* page to hold.
PAGE_SIZE == 50

\* run_scraper, lines 119-120: math.ceil(total_trophies / 50), the estimate
\* shown to the user; the "total" item is the first of the summary's items.
total_pages(summary) ==
    LET total == IF /\ summary.total_trophies # <<>>
                    /\ summary.total_trophies[1][1] = "total"
                 THEN summary.total_trophies[1][2]
                 ELSE 0
    IN (total + PAGE_SIZE - 1) \div PAGE_SIZE

\* A request still in flight has status 0; a transport failure
\* (timeout, connection reset) is status -1.
Pending == 0
TransportError == -1

Request(p) == [page |-> p, status |-> Pending, body |-> <<>>]
Answer(p, status, body) == [page |-> p, status |-> status, body |-> body]

\* The processes that use the cache directory.
Procs == {"a", "b"}

\* A process that is not inside save_to_cache.
NotSaving == [step |-> "out", offset |-> 0]

\* run_scraper's local trophy_log while the driver has not returned: a list
\* that is no list of trophy titles.
Unbound == <<"(unbound)">>

\* No save was attempted in this run.
NoSave == [kind |-> "none", before |-> NoFile]

Init ==
    /\ now = 0
    /\ files = [p \in Paths |-> NoFile]
    /\ username_to_search = <<>>
    /\ profile_data = None
    /\ scraping_in_progress = FALSE
    /\ pc = "idle"
    /\ cached_data = None
    /\ summary_data = None
    /\ page = 1
    /\ all_trophies = <<>>
    /\ trophy_log = Unbound
    /\ http = <<>>
    /\ progress = <<>>
    /\ events = <<>>
    /\ ui = "none"
    /\ save = NoSave
    /\ loads = <<>>
    /\ writers = [p \in Procs |-> NotSaving]

\* ------------------------------------------- utils.py: the sidebar buttons

\* "Analyze Profile" (render_sidebar, lines 49-53), clicked while no script
\* run is under way; st.rerun() starts main again.
ClickAnalyze(username_input) ==
    /\ pc = "idle"
    /\ username_to_search' = username_input
    /\ profile_data' = None
    /\ scraping_in_progress' = TRUE
    /\ pc' = "main"
    /\ UNCHANGED <<now, files, cached_data, summary_data, driver, http, ui,
                   save>>
    /\ UNCHANGED aux

\* "Stop" (render_sidebar, lines 56-60): shown while scraping_in_progress;
\* clears the flag from the UI thread while the driver may be running.  With
\* no run under way st.rerun() starts main again.
ClickStop ==
    /\ scraping_in_progress
    /\ scraping_in_progress' = FALSE
    /\ pc' = IF pc = "idle" THEN "main" ELSE pc
    /\ UNCHANGED <<now, files, username_to_search, profile_data, cached_data,
                   summary_data, driver, http, ui, save>>
    /\ UNCHANGED aux

\* The text box is edited (render_sidebar, lines 43-45) while no script run is
\* under way: Streamlit runs main again with the session as it is.
Rerun ==
    /\ pc = "idle"
    /\ pc' = "main"
    /\ UNCHANGED <<now, files, session, cached_data, summary_data, driver,
                   http, ui, save>>
    /\ UNCHANGED aux

\* ------------------------------------------------------------ app.py: main

\* main (lines 45-84): starts run_scraper for a new scrape, else displays
\* what the session holds and the script run ends.  The locals and records
\* of the previous run are gone either way.
Main ==
    /\ pc = "main"
    /\ pc' = IF /\ username_to_search # <<>>
                /\ profile_data = None
                /\ scraping_in_progress
             THEN "run_scraper"
             ELSE "idle"
    /\ cached_data' = None
    /\ summary_data' = None
    /\ page' = 1
    /\ all_trophies' = <<>>
    /\ trophy_log' = Unbound
    /\ http' = <<>>
    /\ progress' = <<>>
    /\ events' = <<>>
    /\ ui' = "none"
    /\ save' = NoSave
    /\ UNCHANGED <<now, files, session>>
    /\ UNCHANGED aux

\* ----------------------------------------------------- app.py: run_scraper

\* A mutant of NetworkErrorHandler: the handler puts the records the driver
\* had aggregated into the session snapshot.
NetworkErrorHandler_keep ==
    /\ ui' = "network_error"
    /\ profile_data' = IF profile_data = None THEN None
                       ELSE [profile_data EXCEPT !.trophy_log = all_trophies]
    /\ scraping_in_progress' = FALSE
    /\ pc' = "main"

\* The except clause of run_scraper (lines 154-159): the error is shown, the
\* flag is cleared and the script is rerun; the session snapshot is left as
\* it is, and the driver's all_trophies is gone with its frame.
NetworkErrorHandler ==
    /\ ui' = "network_error"
    /\ profile_data' = profile_data
    /\ scraping_in_progress' = FALSE
    /\ pc' = "main"

\* A mutant of CacheHit: what the cache returned is never used.
CacheHit_never(cached) == FALSE

\* run_scraper, line 93, "if cached_data:": the cache returned a snapshot.
CacheHit(cached) == cached # None

\* run_scraper, lines 92-98: the cache is asked first.
RunScraperLoad ==
    /\ pc = "run_scraper"
    /\ cached_data' = load_from_cache(files, now, username_to_search)
    /\ IF CacheHit(cached_data')
       THEN /\ ui' = "cache_hit"
            /\ profile_data' = cached_data'
            /\ scraping_in_progress' = FALSE
            /\ pc' = "main"
       ELSE /\ pc' = "fetch_summary"
            /\ UNCHANGED <<profile_data, scraping_in_progress, ui>>
    /\ files' = load_from_cache_files(files, now, username_to_search)
    /\ UNCHANGED <<now, username_to_search, summary_data, driver, http, save>>
    /\ UNCHANGED aux

\* run_scraper, lines 100-117 with fetch_summary_data (lines 126-132), the
\* summary request failing: the RequestException reaches the except clause.
FetchSummaryError(status) ==
    /\ pc = "fetch_summary"
    /\ status = TransportError \/ status >= HTTP_ERROR_MIN
    /\ http' = Append(http, Answer(0, status, NoUserBar))
    /\ NetworkErrorHandler
    /\ UNCHANGED <<now, files, username_to_search, cached_data, summary_data,
                   driver, save>>
    /\ UNCHANGED aux

\* A mutant of ProfileFound: every summary counts as a profile.
ProfileFound_always(summary) == TRUE

\* run_scraper, line 107, summary_data.get("total_trophies") is truthy.
ProfileFound(summary) == summary.total_trophies # <<>>

\* run_scraper, lines 100-117, the summary page answered and parsed: without
\* trophy totals the profile is reported as not found, else the session
\* snapshot is set up with an empty trophy log and the driver is entered
\* (fetch_full_trophy_log, lines 145-150).  An exception out of
\* parse_profile_summary is no RequestException: neither fetch_summary_data
\* (line 130) nor run_scraper (line 154) catches it, and the script run ends
\* with the session as it is.
FetchSummary(status, doc) ==
    /\ pc = "fetch_summary"
    /\ status # TransportError /\ status < HTTP_ERROR_MIN
    /\ http' = Append(http, Answer(0, status, doc))
    /\ IF parse_profile_summary_raises(doc)
       THEN /\ ui' = "exception"
            /\ pc' = "end"
            /\ UNCHANGED <<summary_data, profile_data, scraping_in_progress,
                           driver>>
       ELSE /\ summary_data' = parse_profile_summary(doc)
            /\ IF ProfileFound(summary_data')
               THEN /\ profile_data' = [profile_summary |-> summary_data',
                                        trophy_log |-> <<>>]
                    /\ page' = 1
                    /\ all_trophies' = <<>>
                    /\ pc' = "loop"
                    /\ UNCHANGED <<scraping_in_progress, ui, trophy_log,
                                   progress, events>>
               ELSE /\ ui' = "not_found"
                    /\ scraping_in_progress' = FALSE
                    /\ pc' = "end"
                    /\ UNCHANGED <<profile_data, driver>>
    /\ UNCHANGED <<now, files, username_to_search, cached_data, save>>
    /\ UNCHANGED aux

\* ---------------------------------------- scraper.py: fetch_full_trophy_log

\* A mutant of should_stop: the predicate answers with the flag as it was
\* when the driver was entered.
should_stop_stale == FALSE

\* should_stop_scraping (app.py line 133).
should_stop == ~scraping_in_progress

\* A mutant of WhileCondition: the predicate is not consulted.
WhileCondition_nocheck == TRUE

\* The loop condition (line 152): not should_stop().
WhileCondition == ~should_stop

\* Line 152 and lines 154-155: the loop condition is evaluated; when it holds
\* the request for the current page goes out, else the loop is left.
LoopCheck ==
    /\ pc = "loop"
    /\ IF WhileCondition
       THEN /\ http' = Append(http, Request(page))
            /\ pc' = "inflight"
       ELSE /\ pc' = "epilogue"
            /\ UNCHANGED http
    /\ UNCHANGED <<now, files, session, cached_data, summary_data, driver, ui,
                   save>>
    /\ UNCHANGED aux

\* The last request with its answer filled in.
Answered(status, body) ==
    [http EXCEPT ![Len(http)] = Answer(page, status, body)]

\* Lines 155 and 172-174: session.get raises (timeout, connection reset);
\* the exception is printed and raised again, through run_scraper's try.
RespondTransportError ==
    /\ pc = "inflight"
    /\ http' = Answered(TransportError, <<>>)
    /\ NetworkErrorHandler
    /\ UNCHANGED <<now, files, username_to_search, cached_data, summary_data,
                   driver, save>>
    /\ UNCHANGED aux

\* A mutant of IsEndOfPages: no status ends the pages, so a 404 is raised
\* by raise_for_status like any other.
IsEndOfPages_never(status) == FALSE

\* Line 158: a 404 is the end of the pages.
IsEndOfPages(status) == status = HTTP_NOT_FOUND

\* A mutant of RaisesForStatus: no status raises.
RaisesForStatus_never(status) == FALSE

\* Line 161: log_rs.raise_for_status() raises HTTPError for 4xx and 5xx.
RaisesForStatus(status) == status >= HTTP_ERROR_MIN

\* A mutant of IsExhausted: an empty page does not end the loop.
IsExhausted_never(trophies_on_page) == FALSE

\* Line 164: not trophies_on_page.
IsExhausted(trophies_on_page) == trophies_on_page = <<>>

\* A mutant of Extend: the page's records go in front of the aggregate.
Extend_prepend(all, trophies_on_page) == trophies_on_page \o all

\* Line 167: all_trophies.extend(trophies_on_page).
Extend(all, trophies_on_page) == all \o trophies_on_page

\* A mutant of ProgressCall: the page counter is incremented before the call.
ProgressCall_afterincrement(p, trophies_on_page, all) ==
    [page |-> p + 1, count |-> Len(trophies_on_page), aggregate |-> Len(all)]

\* Line 168: progress_callback(page, len(trophies_on_page)), recorded with
\* the length all_trophies has when the call is made.
ProgressCall(p, trophies_on_page, all) ==
    [page |-> p, count |-> Len(trophies_on_page), aggregate |-> Len(all)]

\* A mutant of NextPage: the page counter stays where it is.
NextPage_same(p) == p

\* Line 169: page += 1.
NextPage(p) == p + 1

\* Lines 155-174: the answer to the request in flight.  A 404 leaves the
\* loop; another 4xx/5xx raises; else the page is parsed, an empty result
\* leaves the loop, and a non-empty one is appended, reported and counted.
Respond(status, body) ==
    /\ pc = "inflight"
    /\ http' = Answered(status, body)
    /\ LET trophies_on_page == parse_trophy_log_page(body)
       IN IF IsEndOfPages(status)
          THEN /\ pc' = "epilogue"
               /\ UNCHANGED <<session, driver, ui>>
          ELSE IF RaisesForStatus(status)
          THEN /\ NetworkErrorHandler
               /\ UNCHANGED <<username_to_search, driver>>
          ELSE IF IsExhausted(trophies_on_page)
          THEN /\ pc' = "epilogue"
               /\ UNCHANGED <<session, driver, ui>>
          ELSE /\ all_trophies' = Extend(all_trophies, trophies_on_page)
               /\ progress' = Append(progress,
                                     ProgressCall(page, trophies_on_page,
                                                  all_trophies'))
               /\ page' = NextPage(page)
               /\ pc' = "sleep"
               /\ UNCHANGED <<session, trophy_log, events, ui>>
    /\ UNCHANGED <<now, files, cached_data, summary_data, save>>
    /\ UNCHANGED aux

\* Line 170: time.sleep(SCRAPE_DELAY_SECONDS) ends.
Sleep ==
    /\ pc = "sleep"
    /\ pc' = "loop"
    /\ UNCHANGED <<now, files, session, cached_data, summary_data, driver,
                   http, ui, save>>
    /\ UNCHANGED aux

\* Lines 176-190: after the loop the scrape_complete event is logged and
\* the aggregate is returned.
DriverReturn ==
    /\ pc = "epilogue"
    /\ events' = Append(events, [event |-> "scrape_complete",
                                 pages_scraped |-> page - 1,
                                 trophies_found |-> Len(all_trophies)])
    /\ trophy_log' = all_trophies
    /\ pc' = "returned"
    /\ UNCHANGED <<now, files, session, cached_data, summary_data, page,
                   all_trophies, progress, http, ui, save>>
    /\ UNCHANGED aux

\* run_scraper, lines 142-152: the result goes into the session snapshot,
\* the snapshot is saved, the message depends on the flag, the flag is
\* cleared and the script is rerun.  An exception out of save_to_cache would
\* not be a RequestException: it would end the script run where it is.
AfterScrape ==
    /\ pc = "returned"
    /\ profile_data' = [profile_data EXCEPT !.trophy_log = trophy_log]
    /\ \E io \in IoOutcomes(profile_data') :
           /\ files' = save_to_cache(files, now, username_to_search,
                                     profile_data', io)
           /\ save' = [kind |-> io.kind,
                       before |-> files[get_cache_path(username_to_search)]]
           /\ IF SaveRaises(io)
              THEN /\ ui' = "exception"
                   /\ pc' = "end"
                   /\ UNCHANGED scraping_in_progress
              ELSE /\ ui' = IF ~scraping_in_progress THEN "stopped"
                            ELSE "success"
                   /\ scraping_in_progress' = FALSE
                   /\ pc' = "main"
    /\ UNCHANGED <<now, username_to_search, cached_data, summary_data, driver,
                   http>>
    /\ UNCHANGED aux

\* ------------------------------------------------------------- environment

\* The wall clock moves on to a later reading.  The clock is read by
\* load_from_cache at the start of a run and by the save at its end, so only
\* the readings at those two places matter: time passes between runs and
\* during a scrape.
Tick(t) ==
    /\ pc \in {"idle", "returned"}
    /\ t > now
    /\ now' = t
    /\ UNCHANGED <<files, session, pc, cached_data, summary_data, driver,
                   http, ui, save>>
    /\ UNCHANGED aux

\* run_scraper returned without st.rerun() (line 112): the script run ends.
ScriptEnd ==
    /\ pc = "end"
    /\ pc' = "idle"
    /\ cached_data' = None
    /\ summary_data' = None
    /\ http' = <<>>
    /\ ui' = "none"
    /\ save' = NoSave
    /\ UNCHANGED <<now, files, session, driver>>
    /\ UNCHANGED aux

\* What the summary page can answer without an error: a 200 with one of the
\* profile pages, or a 304 with no user bar.
SummaryAnswers ==
    {<<200, d>> : d \in SummaryDocs} \cup {<<304, NoUserBar>>}

\* What a log page can answer: a 200 with one of the documents, or a 304,
\* 404 or 500 with no trophy table.
Answers(p) ==
    {<<200, b>> : b \in Bodies(p)} \cup {<<s, <<>>>> : s \in Statuses \ {200}}

Next ==
    \/ \E u \in UsernameInputs : ClickAnalyze(u)
    \/ ClickStop
    \/ Rerun
    \/ Main
    \/ RunScraperLoad
    \/ \E s \in Statuses \cup {TransportError} : FetchSummaryError(s)
    \/ \E a \in SummaryAnswers : FetchSummary(a[1], a[2])
    \/ LoopCheck
    \/ RespondTransportError
    \/ \E a \in Answers(page) :
           /\ (page > MaxPages => parse_trophy_log_page(a[2]) = <<>>)
           /\ Respond(a[1], a[2])
    \/ DriverReturn
    \/ Sleep
    \/ AfterScrape
    \/ ScriptEnd
    \/ \E t \in TimePoints : Tick(t)

Spec == Init /\ [][Next]_vars

\* The steps of the thread that runs fetch_full_trophy_log: the loop
\* condition, the answer to the request (session.get returns or, at the
\* latest after REQUEST_TIMEOUT_SECONDS, raises), the end of the delay, the
\* epilogue.
DriverStep ==
    \/ LoopCheck
    \/ RespondTransportError
    \/ \E a \in Answers(page) :
           /\ (page > MaxPages => parse_trophy_log_page(a[2]) = <<>>)
           /\ Respond(a[1], a[2])
    \/ Sleep
    \/ DriverReturn

\* The thread that runs the driver is not held up for ever: a statement that
\* can be executed is executed.  Every step of the driver moves pc.
SpecLive == Spec /\ WF_pc(DriverStep)

\* ------------------------------------------- cache.py called on its own

\* The users whose entries are loaded and saved.
CacheUsers == UsernameInputs \ {<<>>}

\* A profile snapshot with the trophy log given.
Snapshot(log) ==
    [profile_summary |-> [total_trophies |-> <<<<"total", 51>>>>],
     trophy_log |-> log]

\* The snapshots that are saved.
CacheSnapshots == {Snapshot(<<>>), Snapshot(<<Title(1, 1)>>)}

\* The last two elements of a sequence.
LastTwo(l) == IF Len(l) <= 2 THEN l ELSE SubSeq(l, Len(l) - 1, Len(l))

\* save_to_cache(username, data), lines 32-39.
CacheSave(u, data, io) ==
    /\ files' = save_to_cache(files, now, u, data, io)
    /\ loads' = <<>>
    /\ UNCHANGED <<now, session, pc, cached_data, summary_data, driver, http,
                   ui, save, writers>>

\* load_from_cache(username), lines 18-30; the call is recorded with the
\* clock reading, the result and the directory it found.
CacheLoad(u) ==
    /\ cached_data' = load_from_cache(files, now, u)
    /\ files' = load_from_cache_files(files, now, u)
    /\ loads' = LastTwo(Append(loads, [username |-> u,
                                       at |-> now,
                                       result |-> cached_data',
                                       before |-> files]))
    /\ UNCHANGED <<now, session, pc, summary_data, driver, http, ui, save,
                   writers>>

NextCache ==
    \/ \E u \in CacheUsers, data \in CacheSnapshots :
           \E io \in IoOutcomes(data) : CacheSave(u, data, io)
    \/ \E u \in CacheUsers : CacheLoad(u)
    \/ \E t \in TimePoints : Tick(t)

SpecCache == Init /\ [][NextCache]_vars

\* ------------------------------- cache.py: two processes saving one entry

\* The user both processes save for.
RaceUser == <<"f", "o">>

\* The snapshot that is cached when the processes start.
PreviousSnapshot == Snapshot(<<>>)

\* The snapshot each process saves.
SnapshotOf(p) ==
    IF p = "a" THEN Snapshot(<<Title(1, 1), Title(1, 2)>>)
    ELSE Snapshot(<<Title(2, 1)>>)

\* What a file holds where nothing was written below a later write.
Hole == <<"nul", "">>

\* The content after tok is written at the offset (the number of tokens in
\* front of it): what was there is overwritten, the file grows as needed.
WriteAt(content, offset, tok) ==
    [i \in 1..(IF offset < Len(content) THEN Len(content) ELSE offset + 1) |->
        IF i = offset + 1 THEN tok
        ELSE IF i <= Len(content) THEN content[i]
        ELSE Hole]

\* The cache holds the previous snapshot, fresh; nothing else has happened.
InitRace ==
    /\ now = 0
    /\ files = [p \in Paths |->
                   IF p = get_cache_path(RaceUser)
                   THEN FileOf(json_dump(PreviousSnapshot), 0)
                   ELSE NoFile]
    /\ username_to_search = <<>>
    /\ profile_data = None
    /\ scraping_in_progress = FALSE
    /\ pc = "idle"
    /\ cached_data = None
    /\ summary_data = None
    /\ page = 1
    /\ all_trophies = <<>>
    /\ trophy_log = Unbound
    /\ http = <<>>
    /\ progress = <<>>
    /\ events = <<>>
    /\ ui = "none"
    /\ save = NoSave
    /\ loads = <<>>
    /\ writers = [p \in Procs |-> NotSaving]

\* save_to_cache, line 36: open(cache_file, 'w') creates or truncates the
\* file; the process's file offset is 0.
RaceOpen(p) ==
    /\ writers[p].step = "out"
    /\ files' = [files EXCEPT ![get_cache_path(RaceUser)] = FileOf(<<>>, now)]
    /\ writers' = [writers EXCEPT ![p] = [step |-> "writing", offset |-> 0]]
    /\ UNCHANGED <<now, session, pc, cached_data, summary_data, driver, http,
                   ui, save, loads>>

\* save_to_cache, line 37: json.dump hands the next piece to the file, which
\* is written at the process's own offset.
RaceWrite(p) ==
    /\ writers[p].step = "writing"
    /\ writers[p].offset < Len(json_dump(SnapshotOf(p)))
    /\ files' = [files EXCEPT ![get_cache_path(RaceUser)] =
                    FileOf(WriteAt(@.content, writers[p].offset,
                                   json_dump(SnapshotOf(p))
                                       [writers[p].offset + 1]),
                           now)]
    /\ writers' = [writers EXCEPT ![p].offset = @ + 1]
    /\ UNCHANGED <<now, session, pc, cached_data, summary_data, driver, http,
                   ui, save, loads>>

\* save_to_cache, line 36: the with block is left, the file is closed.
RaceClose(p) ==
    /\ writers[p].step = "writing"
    /\ writers[p].offset = Len(json_dump(SnapshotOf(p)))
    /\ writers' = [writers EXCEPT ![p].step = "closed"]
    /\ UNCHANGED <<now, files, session, pc, cached_data, summary_data, driver,
                   http, ui, save, loads>>

\* load_from_cache(username) by a third caller, at any moment.
RaceLoad ==
    /\ cached_data' = load_from_cache(files, now, RaceUser)
    /\ files' = load_from_cache_files(files, now, RaceUser)
    /\ UNCHANGED <<now, session, pc, summary_data, driver, http, ui, save,
                   loads, writers>>

NextRace ==
    \/ \E p \in Procs : RaceOpen(p)
    \/ \E p \in Procs : RaceWrite(p)
    \/ \E p \in Procs : RaceClose(p)
    \/ RaceLoad

SpecRace == InitRace /\ [][NextRace]_vars

\* ------------------------------------------------- terms of the properties

IsLogRequest(r) == r.page > 0

\* The requests for log pages of this run, in the order they went out.
LogRequests == SelectSeq(http, IsLogRequest)

RECURSIVE Aggregate(_)
\* The records of the pages in reqs, page after page.
Aggregate(reqs) ==
    IF reqs = <<>> THEN <<>>
    ELSE parse_trophy_log_page(Head(reqs).body) \o Aggregate(Tail(reqs))

\* The request was answered with a 2xx status.
Is2xx(r) == r.status >= 200 /\ r.status <= 299

\* The request was answered with a status that is neither 2xx nor 404.
IsOtherStatus(r) ==
    r.status # Pending /\ r.status # TransportError /\ ~Is2xx(r)
        /\ r.status # HTTP_NOT_FOUND

\* The driver is past its loop, or the run is over after it.
LoopLeftQuietly ==
    /\ pc \in {"epilogue", "returned", "main"}
    /\ ui \in {"none", "stopped", "success"}

\* The loop ended by exhaustion: the last page asked for answered 404, or
\* answered without an error and with no record.
EndedByExhaustion ==
    /\ LogRequests # <<>>
    /\ LET r == LogRequests[Len(LogRequests)]
       IN \/ r.status = HTTP_NOT_FOUND
          \/ /\ r.status \notin {Pending, TransportError}
             /\ r.status < HTTP_ERROR_MIN
             /\ parse_trophy_log_page(r.body) = <<>>

\* The entry of the user of this run.
Entry == files[Lower(username_to_search)]

\* ------------------------------------------------------------------ claims

\* C1: should_stop is consulted before every page fetch, the first included:
\* a request for a log page only goes out in a step that starts with
\* should_stop false; with should_stop true at the loop head the driver
\* leaves the loop without a request, and from there it sends none and
\* returns exactly the records of the pages fetched so far.
C1_StopCheckedBeforeEveryFetch ==
    [][/\ (Len(http') > Len(http) /\ pc = "loop" => ~should_stop)
       /\ (pc = "loop" /\ should_stop => pc' = "epilogue" /\ http' = http)
       /\ (pc = "epilogue" =>
               /\ pc' \in {"epilogue", "returned"}
               /\ http' = http
               /\ (pc' = "returned" => trophy_log' = Aggregate(LogRequests)))
       /\ (pc = "returned" => http' = http)]_vars

\* C1 witness: stopped after page 1, the driver has returned page 1's records
\* after exactly one request.
C1_Witness ==
    /\ pc = "returned"
    /\ should_stop
    /\ Len(LogRequests) = 1
    /\ trophy_log # <<>>
    /\ trophy_log = parse_trophy_log_page(LogRequests[1].body)

\* C2: a log page N that answers 404 is the last request of the run (page
\* N+1 is never asked for), raises nothing, and the driver's aggregate and
\* result are exactly the records of pages 1..N-1.
C2_NotFoundEndsThePages ==
    \A i \in 1..Len(LogRequests) :
        LogRequests[i].status = HTTP_NOT_FOUND =>
            /\ i = Len(LogRequests)
            /\ \A j \in 1..Len(LogRequests) :
                   LogRequests[j].page # LogRequests[i].page + 1
            /\ LoopLeftQuietly
            /\ all_trophies = Aggregate(SubSeq(LogRequests, 1, i - 1))
            /\ (pc # "epilogue" => trophy_log = all_trophies)

\* C2 witness: pages 1 and 2 had records, page 3 answered 404, and the
\* driver returned the records of pages 1 and 2.
C2_Witness ==
    /\ pc = "returned"
    /\ Len(LogRequests) = 3
    /\ LogRequests[3].page = 3
    /\ LogRequests[3].status = HTTP_NOT_FOUND
    /\ Len(trophy_log) >= 2
    /\ trophy_log = parse_trophy_log_page(LogRequests[1].body)
                        \o parse_trophy_log_page(LogRequests[2].body)

\* C3: a log page that answers 2xx with no extractable record is the last
\* request of the run, raises nothing, and the driver's aggregate and result
\* are the records of the pages before it.
C3_EmptyPageEndsThePages ==
    \A i \in 1..Len(LogRequests) :
        (/\ Is2xx(LogRequests[i])
         /\ parse_trophy_log_page(LogRequests[i].body) = <<>>) =>
            /\ i = Len(LogRequests)
            /\ LoopLeftQuietly
            /\ all_trophies = Aggregate(SubSeq(LogRequests, 1, i - 1))
            /\ (pc # "epilogue" => trophy_log = all_trophies)

\* C3 witness: page 1 answered 200 with a table holding only its header row;
\* the driver returned the empty list after that one request.
C3_Witness ==
    /\ pc = "returned"
    /\ Len(LogRequests) = 1
    /\ LogRequests[1].status = 200
    /\ LogRequests[1].body = <<HeaderRow>>
    /\ trophy_log = <<>>
    /\ ui = "none"

\* The log pages are asked for in the order 1, 2, ..., k, each once.
PagesInOrder == \A i \in 1..Len(LogRequests) : LogRequests[i].page = i

\* The request at i failed the whole scrape: it is the last request, the
\* error reached run_scraper's handler and no result was returned.
FatalAt(i) ==
    /\ i = Len(LogRequests)
    /\ ui = "network_error"
    /\ pc = "main"
    /\ trophy_log = Unbound

C5_Original ==
    (ui = "network_error" /\ Len(LogRequests) > 1) =>
        /\ profile_data # None
        /\ profile_data.trophy_log = Aggregate(LogRequests)

\* C5 amended: after a NetworkError on log page N > 1 the session snapshot
\* holds none of the records aggregated from pages 1..N-1: its trophy_log is
\* still the empty list it was set up with, the driver returned nothing and
\* no save was attempted.
C5_Amended ==
    (ui = "network_error" /\ Len(LogRequests) > 1) =>
        /\ profile_data # None
        /\ profile_data.trophy_log = <<>>
        /\ profile_data.profile_summary = summary_data
        /\ trophy_log = Unbound
        /\ save = NoSave

\* C5 witness: the scrape failed on page 2 with page 1's records aggregated,
\* and the session snapshot's trophy log is empty.
C5_Witness ==
    /\ ui = "network_error"
    /\ Len(LogRequests) = 2
    /\ all_trophies # <<>>
    /\ all_trophies = Aggregate(LogRequests)
    /\ profile_data # None
    /\ profile_data.trophy_log = <<>>

\* C6 as stated: when the driver has returned, scrape_complete was logged
\* exactly once if the loop ended by exhaustion and not at all if it ended
\* by should_stop; after a NetworkError it was not logged.
C6_Original ==
    /\ (pc = "returned" =>
            IF EndedByExhaustion THEN Len(events) = 1 ELSE events = <<>>)
    /\ (ui = "network_error" => events = <<>>)

\* C7: for every user name, load on the directory as it is now returns
\* nothing for an entry of age >= 24 hours, whatever its content, and for an
\* entry of age < 24 hours with valid content returns that content.
C7_FreshnessWindow ==
    \A u \in UsernameInputs :
        LET f == files[Lower(u)]
            loaded == load_from_cache(files, now, u)
        IN f.exists =>
               /\ (now - f.mtime >= CACHE_EXPIRATION => loaded = None)
               /\ (now - f.mtime < CACHE_EXPIRATION /\ json_load(f.content).ok
                       => loaded # None /\ json_dump(loaded) = f.content)

\* C7 witness: run_scraper's load found nothing although the user's entry
\* holds valid content, because the entry is 25 hours old.
C7_Witness ==
    /\ pc = "fetch_summary"
    /\ cached_data = None
    /\ Entry.exists
    /\ json_load(Entry.content).ok
    /\ now - Entry.mtime = 25

\* C8 as stated: a snapshot the orchestrator has written to the cache comes
\* from a scrape that ended by exhaustion.
C8_Original ==
    (pc = "main" /\ save.kind = "ok") => EndedByExhaustion

\* C9: right after a successful save, load for the same user returns a value
\* equal to the snapshot saved, whatever entry was there before.
C9_RoundTrip ==
    (pc = "main" /\ save.kind = "ok") =>
        load_from_cache(files, now, username_to_search) = profile_data

\* C9 witness: a successful save over a stale entry with other valid content,
\* and load returns the snapshot just saved, with trophies in it.
C9_Witness ==
    /\ pc = "main"
    /\ save.kind = "ok"
    /\ save.before.exists
    /\ json_load(save.before.content).ok
    /\ json_load(save.before.content).value # profile_data
    /\ now - save.before.mtime >= CACHE_EXPIRATION
    /\ profile_data.trophy_log # <<>>
    /\ load_from_cache(files, now, username_to_search) = profile_data

\* The user names that differ from u in letter case at most.
SameUser(u) == {v \in UsernameInputs : Lower(v) = Lower(u)}

\* C10: entries exist only under lowercased names, so the names that differ
\* in case only share one entry: load gives the same under each of them, and
\* right after a successful save under one of them load under any of them
\* returns the snapshot saved last.
C10_KeyIsLowercased ==
    /\ \A p \in Paths : files[p].exists => p = Lower(p)
    /\ \A u \in UsernameInputs : \A v \in SameUser(u) :
           load_from_cache(files, now, u) = load_from_cache(files, now, v)
    /\ (pc = "main" /\ save.kind = "ok") =>
           \A v \in SameUser(username_to_search) :
               load_from_cache(files, now, v) = profile_data

\* C10 witness: a save under "fo" replaced other valid content of the one
\* entry there is, and load under "Fo" returns the snapshot saved last.
C10_Witness ==
    /\ pc = "main"
    /\ save.kind = "ok"
    /\ username_to_search = <<"f", "o">>
    /\ save.before.exists
    /\ json_load(save.before.content).ok
    /\ json_load(save.before.content).value # profile_data
    /\ Cardinality({p \in Paths : files[p].exists}) = 1
    /\ load_from_cache(files, now, <<"F", "o">>) = profile_data

\* The entry of the user of this run is fresh at the present clock reading.
EntryFresh == Entry.exists /\ now - Entry.mtime < CACHE_EXPIRATION

\* The entry of the user of this run holds content json.load cannot parse.
EntryCorrupt == Entry.exists /\ ~json_load(Entry.content).ok

C20_CacheHitMakesNoRequest ==
    /\ (cached_data # None =>
            /\ ui = "cache_hit"
            /\ pc = "main"
            /\ profile_data = cached_data
            /\ ~scraping_in_progress
            /\ http = <<>>
            /\ save = NoSave
            /\ load_from_cache(files, now, username_to_search) = cached_data)
    /\ (http # <<>> => cached_data = None)

\* C20 witness: a cache hit whose snapshot carries trophy records.
C20_Witness ==
    /\ ui = "cache_hit"
    /\ cached_data # None
    /\ profile_data.trophy_log # <<>>
    /\ http = <<>>

\* The summary page was answered without a request error.
SummaryAnswered ==
    /\ http # <<>>
    /\ http[1].page = 0
    /\ http[1].status # TransportError
    /\ http[1].status < HTTP_ERROR_MIN

\* C16: when the parsed summary has no trophy totals, run_scraper reports the
\* profile as not found and ends: the summary request is the only request of
\* the run, no save was attempted, the session holds no snapshot and the
\* flag is cleared.
C16_NoTotalsIsNotFound ==
    (summary_data # None /\ summary_data.total_trophies = <<>>) =>
        /\ ui = "not_found"
        /\ pc = "end"
        /\ Len(http) = 1
        /\ LogRequests = <<>>
        /\ save = NoSave
        /\ profile_data = None
        /\ ~scraping_in_progress

\* C16 witness: a summary page without a user bar was answered with 200 while
\* the cache holds no entry of the user.
C16_Witness ==
    /\ ui = "not_found"
    /\ SummaryAnswered
    /\ http[1].status = 200
    /\ http[1].body = NoUserBar
    /\ ~Entry.exists

\* The page has a user bar whose total can be read.
HasReadableTotal(doc) ==
    /\ doc.user_bar
    /\ \E i \in 1..Len(doc.li) :
           /\ doc.li[i].class = "total"
           /\ ~IntRaises(CountText(doc.li[i]))

\* C17, as stated: a field that cannot be extracted is absorbed, so a profile
\* page with a user bar and a readable total is never reported as not found
\* and its total is kept in the summary.
C17_Original ==
    (SummaryAnswered /\ HasReadableTotal(http[1].body)) =>
        /\ ui # "not_found"
        /\ summary_data # None =>
               \E i \in 1..Len(summary_data.total_trophies) :
                   summary_data.total_trophies[i] = <<"total", 51>>

\* C12: when the save fails (open() or a write raises IOError), run_scraper
\* goes on as after a save that went well: the message is the one of the
\* flag (success, or stopped after a manual stop), the flag is cleared, the
\* script is rerun, and the session snapshot is the summary with the
\* driver's result, as assigned before the save.
C12_FailedSaveIsSwallowed ==
    save.kind \in {"open_error", "write_error"} =>
        /\ pc = "main"
        /\ ui \in {"success", "stopped"}
        /\ ~scraping_in_progress
        /\ profile_data = [profile_summary |-> summary_data,
                           trophy_log |-> trophy_log]

\* C12 witness: a write failed on a scrape that was not stopped and had
\* gathered records; the run reports success.
C12_Witness ==
    /\ save.kind = "write_error"
    /\ ui = "success"
    /\ profile_data.trophy_log # <<>>
    /\ EntryCorrupt

\* The driver is between its entry and its return statement.
InDriver == pc \in {"loop", "inflight", "sleep", "epilogue"}

\* a is a prefix of b.
IsPrefix(a, b) == Len(a) <= Len(b) /\ SubSeq(b, 1, Len(a)) = a

\* No element occurs twice in l.
NoDuplicates(l) == \A i, j \in 1..Len(l) : l[i] = l[j] => i = j

\* C15: while the driver runs, its aggregate is the concatenation, in the
\* order of the requests, of the records parsed from the pages fetched so
\* far, without a duplicate; every step of the driver leaves the old
\* aggregate a prefix of the new one; and what the driver returns is the
\* aggregate.
C15_ResultIsConcatenation ==
    [][/\ InDriver =>
              /\ PagesInOrder
              /\ all_trophies = Aggregate(LogRequests)
              /\ NoDuplicates(all_trophies)
       /\ (InDriver /\ pc' \in {"loop", "inflight", "sleep", "epilogue",
                                "returned"}) =>
              IsPrefix(all_trophies, all_trophies')
       /\ (InDriver /\ pc' = "returned") =>
              /\ trophy_log' = all_trophies
              /\ trophy_log' = Aggregate(LogRequests')]_vars

\* C15 witness: the driver returned the two trophies of page 1 (the short
\* row between them left out) followed by the trophy of page 2.
C15_Witness ==
    /\ pc = "returned"
    /\ trophy_log = <<Title(1, 1), Title(1, 2), Title(2, 1)>>
    /\ Len(LogRequests) = 3

\* The log page was answered without an error and has at least one record.
IsProductive(r) ==
    /\ r.status \notin {Pending, TransportError}
    /\ r.status < HTTP_ERROR_MIN
    /\ r.status # HTTP_NOT_FOUND
    /\ parse_trophy_log_page(r.body) # <<>>

\* C14, as stated: one call of the progress callback for every log page
\* that was fetched successfully.
C14_Original ==
    Len(progress) = Len(SelectSeq(LogRequests, Is2xx))

\* C14, amended: the progress callback is called once for every fetched log
\* page that has at least one record, and for no other; the i-th call is for
\* page i with the number of records of that page, made when the aggregate
\* already holds the records of pages 1..i; and it is made before the delay
\* and before the next request.
C14_Amended ==
    /\ Len(progress) = Len(SelectSeq(LogRequests, IsProductive))
    /\ \A i \in 1..Len(progress) :
           /\ IsProductive(LogRequests[i])
           /\ LogRequests[i].page = i
           /\ progress[i].page = i
           /\ progress[i].count =
                  Len(parse_trophy_log_page(LogRequests[i].body))
           /\ progress[i].aggregate =
                  Len(Aggregate(SubSeq(LogRequests, 1, i)))
    /\ (pc = "sleep" => Len(progress) = Len(LogRequests))
    /\ (pc = "inflight" => Len(progress) = Len(LogRequests) - 1)

\* C14 witness: the driver sleeps after its second call, which reported the
\* one record of page 2 with three records aggregated.
C14_Witness ==
    /\ pc = "sleep"
    /\ Len(progress) = 2
    /\ progress[2] = [page |-> 2, count |-> 1, aggregate |-> 3]

\* The request has not been answered yet.
IsPending(r) == r.status = Pending

\* How far the driver is from its return statement.
StepsToReturn ==
    CASE pc = "inflight" -> 4
      [] pc = "sleep" -> 3
      [] pc = "loop" -> 2
      [] pc = "epilogue" -> 1
      [] OTHER -> 0

\* C18: at most one request is outstanding, and only while the driver waits
\* for it.  With the flag cleared by the Stop button while the driver runs,
\* no step of the driver sends a request and every step brings it nearer to
\* its return: the answer to the request in flight, whose records are still
\* appended and reported, then one delay, the loop condition, the epilogue.
C18_StopBoundsTheDriver ==
    [][/\ Len(SelectSeq(http, IsPending)) <= 1
       /\ (http # <<>> /\ IsPending(http[Len(http)])) <=> pc = "inflight"
       /\ (InDriver /\ ~scraping_in_progress) =>
              /\ ~scraping_in_progress'
              /\ Len(http') = Len(http)
              /\ Len(SelectSeq(http', IsPending)) = 0
              /\ StepsToReturn' < StepsToReturn
              /\ pc' = "sleep" =>
                     /\ pc = "inflight"
                     /\ IsProductive(http'[Len(http)])
                     /\ all_trophies' = Aggregate(SelectSeq(http',
                                                            IsLogRequest))
                     /\ Len(progress') = Len(progress) + 1]_vars

\* C18 witness: the flag is cleared while the driver sleeps after page 2,
\* whose record was appended and reported.
C18_Witness ==
    /\ pc = "sleep"
    /\ ~scraping_in_progress
    /\ Len(progress) = 2
    /\ all_trophies = Aggregate(LogRequests)
    /\ Len(all_trophies) > Len(parse_trophy_log_page(LogRequests[1].body))

\* Two loads of the same entry were made with no save in between.
TwoLoads ==
    /\ Len(loads) = 2
    /\ get_cache_path(loads[1].username) = get_cache_path(loads[2].username)

\* The entry the last load looked at.
LoadedEntry == files[get_cache_path(loads[Len(loads)].username)]

\* C13, as stated: two loads of an entry with no save in between return
\* equal results.
C13_Original == TwoLoads => loads[1].result = loads[2].result

\* C13, amended: two loads of an entry with no save in between return equal
\* results, unless the entry turned 24 hours old between them: then the first
\* returned the snapshot and the second returns nothing.  A load leaves the
\* directory as it found it, so a stale or corrupt entry is still there
\* after it.
C13_Amended ==
    /\ TwoLoads =>
           \/ loads[1].result = loads[2].result
           \/ /\ loads[2].result = None
              /\ LoadedEntry.exists
              /\ loads[1].at - LoadedEntry.mtime < CACHE_EXPIRATION
              /\ loads[2].at - LoadedEntry.mtime >= CACHE_EXPIRATION
    /\ (TwoLoads /\ loads[1].at = loads[2].at) =>
           loads[1].result = loads[2].result
    /\ \A i \in 1..Len(loads) : loads[i].before = files

\* C13 witness: of two loads the first returned the snapshot and the second,
\* after the entry turned stale, nothing; the entry is still on disk.
C13_Witness ==
    /\ TwoLoads
    /\ loads[1].result # None
    /\ loads[2].result = None
    /\ LoadedEntry.exists
    /\ json_load(LoadedEntry.content).ok

\* Both processes have left save_to_cache.
BothSaved == \A p \in Procs : writers[p].step = "closed"

\* C19, as stated: when both concurrent saves have finished, the entry holds
\* one of the two snapshots in full; and whatever a load returned while they
\* ran is nothing, the previous snapshot or one of the two.
C19_Original ==
    /\ BothSaved =>
           \E p \in Procs :
               files[get_cache_path(RaceUser)].content =
                   json_dump(SnapshotOf(p))
    /\ cached_data \in {None, PreviousSnapshot}
                           \cup {SnapshotOf(p) : p \in Procs}

\* run_scraper has been left in this script run: it showed its last message
\* (or the exception was shown in its place).
RunScraperLeft == ui # "none"

\* A rerun of main would call run_scraper: lines 45-53.
RerunWouldScrape ==
    /\ username_to_search # <<>>
    /\ profile_data = None
    /\ scraping_in_progress

\* C22, as stated: whenever run_scraper has been left the flag is false, and
\* with no script run under way a rerun of main would not start a scrape.
C22_Original ==
    /\ RunScraperLeft => ~scraping_in_progress
    /\ pc = "idle" => ~RerunWouldScrape

\* C21: the site has no more than MaxPages pages with records, and the driver,
\* once entered, leaves (it returns, or the error of a request is raised to
\* run_scraper), whether or not the flag is ever cleared and whatever the
\* estimate was.  Nothing but the answers and the flag decides how long it
\* runs: with the flag set the loop condition always sends the request for
\* the current page, an answer sends the driver into the delay exactly when
\* it is a page with records, the page counter then goes up by one, and the
\* delay always leads back to the loop condition.
C21_DriverTerminates ==
    /\ [](InDriver => <>(~InDriver))
    /\ [][/\ (pc = "loop" /\ pc' # pc /\ scraping_in_progress) =>
                 /\ pc' = "inflight"
                 /\ http' = Append(http, Request(page))
          /\ (pc = "inflight" /\ pc' # pc) =>
                 /\ pc' = "sleep" <=> IsProductive(http'[Len(http)])
                 /\ pc' = "sleep" => page' = page + 1
                 /\ pc' # "sleep" => pc' \in {"epilogue", "main"}
          /\ (pc = "sleep" /\ pc' # pc) => pc' = "loop" /\ page' = page]_vars

\* C21 witness: the driver has returned without the flag ever cleared, after
\* fewer pages with records than the estimate of two.
C21_Witness ==
    /\ pc = "returned"
    /\ scraping_in_progress
    /\ total_pages(summary_data) = 2
    /\ Len(progress) = 1
    /\ Len(LogRequests) = 2

====
